---- MODULE Spec2Model ----
(***************************************************************************)
(* Krull64 / Krull65 random number generators and the LCG kernel they are  *)
(* built on (src/src/lcg.rs, src/src/krull64.rs, src/src/krull65.rs).      *)
(*                                                                         *)
(* Machine words are modelled at their full width.  A u128 is a tuple of   *)
(* 16 bytes and a u64 a tuple of 8 bytes (a u32: 4 bytes), least           *)
(* significant byte first, so that the real multipliers and hash constants *)
(* can be used and every wrapping operation wraps at 2^64 or 2^128 exactly *)
(* as in the Rust code.  An i128 is a sign and a magnitude, so that the    *)
(* cast `steps as u128` is the two's complement reinterpretation.  Byte    *)
(* arrays ([u8; N], &mut [u8]) are functions / sequences of bytes indexed  *)
(* as in the source.                                                       *)
(***************************************************************************)
EXTENDS Integers, Sequences, FiniteSets, TLC

VARIABLES
    krull,   \* the generator object (a Krull64 or a Krull65 value)
    here,    \* what krull.stream() and krull.position() return now
    pre,     \* the generator as it was before the last operation
    before,  \* what pre.stream() and pre.position() returned
    op,      \* the last operation applied and its argument
    out,     \* what the last operation returned or wrote
    ops,     \* number of operations applied since construction
    run,     \* the current run of consecutive next_u64 calls: [p0, k]
    call     \* one call of an LCG kernel function: inputs and result

vars == <<krull, here, pre, before, op, out, ops, run, call>>

(***************************************************************************)
(* Bounds of the model.                                                    *)
(***************************************************************************)
\* Number of operations applied to a generator after its construction.
MaxOps == 1
\* Longest buffer handed to fill_bytes.
MaxLen == 9

(***************************************************************************)
(* Word arithmetic.                                                        *)
(***************************************************************************)
Zero128 == <<0, 0, 0, 0, 0, 0, 0, 0, 0, 0, 0, 0, 0, 0, 0, 0>>
One128 == <<1, 0, 0, 0, 0, 0, 0, 0, 0, 0, 0, 0, 0, 0, 0, 0>>
Max128 == <<255, 255, 255, 255, 255, 255, 255, 255, 255, 255, 255, 255, 255, 255, 255, 255>>
Zero64 == <<0, 0, 0, 0, 0, 0, 0, 0>>
One64 == <<1, 0, 0, 0, 0, 0, 0, 0>>
Max64 == <<255, 255, 255, 255, 255, 255, 255, 255>>

\* Carry propagation over 16 (8) column sums, dropping the carry out of the
\* top byte: the result is the value modulo 2^128 (2^64).
Carry128(c) ==
    LET
        s0 == c[1]
        s1 == c[2] + (s0 \div 256)
        s2 == c[3] + (s1 \div 256)
        s3 == c[4] + (s2 \div 256)
        s4 == c[5] + (s3 \div 256)
        s5 == c[6] + (s4 \div 256)
        s6 == c[7] + (s5 \div 256)
        s7 == c[8] + (s6 \div 256)
        s8 == c[9] + (s7 \div 256)
        s9 == c[10] + (s8 \div 256)
        s10 == c[11] + (s9 \div 256)
        s11 == c[12] + (s10 \div 256)
        s12 == c[13] + (s11 \div 256)
        s13 == c[14] + (s12 \div 256)
        s14 == c[15] + (s13 \div 256)
        s15 == c[16] + (s14 \div 256)
    IN  <<s0 % 256, s1 % 256, s2 % 256, s3 % 256, s4 % 256, s5 % 256, s6 % 256, s7 % 256, s8 % 256, s9 % 256, s10 % 256, s11 % 256, s12 % 256, s13 % 256, s14 % 256, s15 % 256>>

Carry64(c) ==
    LET
        s0 == c[1]
        s1 == c[2] + (s0 \div 256)
        s2 == c[3] + (s1 \div 256)
        s3 == c[4] + (s2 \div 256)
        s4 == c[5] + (s3 \div 256)
        s5 == c[6] + (s4 \div 256)
        s6 == c[7] + (s5 \div 256)
        s7 == c[8] + (s6 \div 256)
    IN  <<s0 % 256, s1 % 256, s2 % 256, s3 % 256, s4 % 256, s5 % 256, s6 % 256, s7 % 256>>

\* Column sums of the schoolbook product, low 16 (8) columns only.
MulCols128(a, b) ==
    <<a[1]*b[1],
        a[1]*b[2] + a[2]*b[1],
        a[1]*b[3] + a[2]*b[2] + a[3]*b[1],
        a[1]*b[4] + a[2]*b[3] + a[3]*b[2] + a[4]*b[1],
        a[1]*b[5] + a[2]*b[4] + a[3]*b[3] + a[4]*b[2] + a[5]*b[1],
        a[1]*b[6] + a[2]*b[5] + a[3]*b[4] + a[4]*b[3] + a[5]*b[2] + a[6]*b[1],
        a[1]*b[7] + a[2]*b[6] + a[3]*b[5] + a[4]*b[4] + a[5]*b[3] + a[6]*b[2] + a[7]*b[1],
        a[1]*b[8] + a[2]*b[7] + a[3]*b[6] + a[4]*b[5] + a[5]*b[4] + a[6]*b[3] + a[7]*b[2] + a[8]*b[1],
        a[1]*b[9] + a[2]*b[8] + a[3]*b[7] + a[4]*b[6] + a[5]*b[5] + a[6]*b[4] + a[7]*b[3] + a[8]*b[2] + a[9]*b[1],
        a[1]*b[10] + a[2]*b[9] + a[3]*b[8] + a[4]*b[7] + a[5]*b[6] + a[6]*b[5] + a[7]*b[4] + a[8]*b[3] + a[9]*b[2] + a[10]*b[1],
        a[1]*b[11] + a[2]*b[10] + a[3]*b[9] + a[4]*b[8] + a[5]*b[7] + a[6]*b[6] + a[7]*b[5] + a[8]*b[4] + a[9]*b[3] + a[10]*b[2] + a[11]*b[1],
        a[1]*b[12] + a[2]*b[11] + a[3]*b[10] + a[4]*b[9] + a[5]*b[8] + a[6]*b[7] + a[7]*b[6] + a[8]*b[5] + a[9]*b[4] + a[10]*b[3] + a[11]*b[2] + a[12]*b[1],
        a[1]*b[13] + a[2]*b[12] + a[3]*b[11] + a[4]*b[10] + a[5]*b[9] + a[6]*b[8] + a[7]*b[7] + a[8]*b[6] + a[9]*b[5] + a[10]*b[4] + a[11]*b[3] + a[12]*b[2] + a[13]*b[1],
        a[1]*b[14] + a[2]*b[13] + a[3]*b[12] + a[4]*b[11] + a[5]*b[10] + a[6]*b[9] + a[7]*b[8] + a[8]*b[7] + a[9]*b[6] + a[10]*b[5] + a[11]*b[4] + a[12]*b[3] + a[13]*b[2] + a[14]*b[1],
        a[1]*b[15] + a[2]*b[14] + a[3]*b[13] + a[4]*b[12] + a[5]*b[11] + a[6]*b[10] + a[7]*b[9] + a[8]*b[8] + a[9]*b[7] + a[10]*b[6] + a[11]*b[5] + a[12]*b[4] + a[13]*b[3] + a[14]*b[2] + a[15]*b[1],
        a[1]*b[16] + a[2]*b[15] + a[3]*b[14] + a[4]*b[13] + a[5]*b[12] + a[6]*b[11] + a[7]*b[10] + a[8]*b[9] + a[9]*b[8] + a[10]*b[7] + a[11]*b[6] + a[12]*b[5] + a[13]*b[4] + a[14]*b[3] + a[15]*b[2] + a[16]*b[1]>>

MulCols64(a, b) ==
    <<a[1]*b[1],
        a[1]*b[2] + a[2]*b[1],
        a[1]*b[3] + a[2]*b[2] + a[3]*b[1],
        a[1]*b[4] + a[2]*b[3] + a[3]*b[2] + a[4]*b[1],
        a[1]*b[5] + a[2]*b[4] + a[3]*b[3] + a[4]*b[2] + a[5]*b[1],
        a[1]*b[6] + a[2]*b[5] + a[3]*b[4] + a[4]*b[3] + a[5]*b[2] + a[6]*b[1],
        a[1]*b[7] + a[2]*b[6] + a[3]*b[5] + a[4]*b[4] + a[5]*b[3] + a[6]*b[2] + a[7]*b[1],
        a[1]*b[8] + a[2]*b[7] + a[3]*b[6] + a[4]*b[5] + a[5]*b[4] + a[6]*b[3] + a[7]*b[2] + a[8]*b[1]>>

\* AndNibble[p + 1][q + 1] is p & q for 4-bit p and q.
AndNibble ==
    <<<<0, 0, 0, 0, 0, 0, 0, 0, 0, 0, 0, 0, 0, 0, 0, 0>>,
      <<0, 1, 0, 1, 0, 1, 0, 1, 0, 1, 0, 1, 0, 1, 0, 1>>,
      <<0, 0, 2, 2, 0, 0, 2, 2, 0, 0, 2, 2, 0, 0, 2, 2>>,
      <<0, 1, 2, 3, 0, 1, 2, 3, 0, 1, 2, 3, 0, 1, 2, 3>>,
      <<0, 0, 0, 0, 4, 4, 4, 4, 0, 0, 0, 0, 4, 4, 4, 4>>,
      <<0, 1, 0, 1, 4, 5, 4, 5, 0, 1, 0, 1, 4, 5, 4, 5>>,
      <<0, 0, 2, 2, 4, 4, 6, 6, 0, 0, 2, 2, 4, 4, 6, 6>>,
      <<0, 1, 2, 3, 4, 5, 6, 7, 0, 1, 2, 3, 4, 5, 6, 7>>,
      <<0, 0, 0, 0, 0, 0, 0, 0, 8, 8, 8, 8, 8, 8, 8, 8>>,
      <<0, 1, 0, 1, 0, 1, 0, 1, 8, 9, 8, 9, 8, 9, 8, 9>>,
      <<0, 0, 2, 2, 0, 0, 2, 2, 8, 8, 10, 10, 8, 8, 10, 10>>,
      <<0, 1, 2, 3, 0, 1, 2, 3, 8, 9, 10, 11, 8, 9, 10, 11>>,
      <<0, 0, 0, 0, 4, 4, 4, 4, 8, 8, 8, 8, 12, 12, 12, 12>>,
      <<0, 1, 0, 1, 4, 5, 4, 5, 8, 9, 8, 9, 12, 13, 12, 13>>,
      <<0, 0, 2, 2, 4, 4, 6, 6, 8, 8, 10, 10, 12, 12, 14, 14>>,
      <<0, 1, 2, 3, 4, 5, 6, 7, 8, 9, 10, 11, 12, 13, 14, 15>>>>

AndByte(p, q) ==
    AndNibble[(p % 16) + 1][(q % 16) + 1] + 16 * AndNibble[(p \div 16) + 1][(q \div 16) + 1]
OrByte(p, q) == p + q - AndByte(p, q)
XorByte(p, q) == p + q - 2 * AndByte(p, q)

\* & | ^ ! on u128 and u64.
And128(a, b) ==
    <<AndByte(a[1], b[1]), AndByte(a[2], b[2]), AndByte(a[3], b[3]), AndByte(a[4], b[4]),
       AndByte(a[5], b[5]), AndByte(a[6], b[6]), AndByte(a[7], b[7]), AndByte(a[8], b[8]),
       AndByte(a[9], b[9]), AndByte(a[10], b[10]), AndByte(a[11], b[11]), AndByte(a[12], b[12]),
       AndByte(a[13], b[13]), AndByte(a[14], b[14]), AndByte(a[15], b[15]), AndByte(a[16], b[16])>>
Or128(a, b) ==
    <<OrByte(a[1], b[1]), OrByte(a[2], b[2]), OrByte(a[3], b[3]), OrByte(a[4], b[4]),
       OrByte(a[5], b[5]), OrByte(a[6], b[6]), OrByte(a[7], b[7]), OrByte(a[8], b[8]),
       OrByte(a[9], b[9]), OrByte(a[10], b[10]), OrByte(a[11], b[11]), OrByte(a[12], b[12]),
       OrByte(a[13], b[13]), OrByte(a[14], b[14]), OrByte(a[15], b[15]), OrByte(a[16], b[16])>>
Xor128(a, b) ==
    <<XorByte(a[1], b[1]), XorByte(a[2], b[2]), XorByte(a[3], b[3]), XorByte(a[4], b[4]),
       XorByte(a[5], b[5]), XorByte(a[6], b[6]), XorByte(a[7], b[7]), XorByte(a[8], b[8]),
       XorByte(a[9], b[9]), XorByte(a[10], b[10]), XorByte(a[11], b[11]), XorByte(a[12], b[12]),
       XorByte(a[13], b[13]), XorByte(a[14], b[14]), XorByte(a[15], b[15]), XorByte(a[16], b[16])>>
Not128(a) ==
    <<255 - a[1], 255 - a[2], 255 - a[3], 255 - a[4], 255 - a[5], 255 - a[6], 255 - a[7], 255 - a[8],
       255 - a[9], 255 - a[10], 255 - a[11], 255 - a[12], 255 - a[13], 255 - a[14], 255 - a[15], 255 - a[16]>>
And64(a, b) ==
    <<AndByte(a[1], b[1]), AndByte(a[2], b[2]), AndByte(a[3], b[3]), AndByte(a[4], b[4]),
       AndByte(a[5], b[5]), AndByte(a[6], b[6]), AndByte(a[7], b[7]), AndByte(a[8], b[8])>>
Or64(a, b) ==
    <<OrByte(a[1], b[1]), OrByte(a[2], b[2]), OrByte(a[3], b[3]), OrByte(a[4], b[4]),
       OrByte(a[5], b[5]), OrByte(a[6], b[6]), OrByte(a[7], b[7]), OrByte(a[8], b[8])>>
Xor64(a, b) ==
    <<XorByte(a[1], b[1]), XorByte(a[2], b[2]), XorByte(a[3], b[3]), XorByte(a[4], b[4]),
       XorByte(a[5], b[5]), XorByte(a[6], b[6]), XorByte(a[7], b[7]), XorByte(a[8], b[8])>>
Not64(a) ==
    <<255 - a[1], 255 - a[2], 255 - a[3], 255 - a[4], 255 - a[5], 255 - a[6], 255 - a[7], 255 - a[8]>>

Pow2(r) == CASE r = 0 -> 1 [] r = 1 -> 2 [] r = 2 -> 4 [] r = 3 -> 8 [] r = 4 -> 16
             [] r = 5 -> 32 [] r = 6 -> 64 [] r = 7 -> 128 [] r = 8 -> 256

\* a >> k and a << k for 0 <= k < width: whole bytes are moved by taking a
\* subsequence of the zero-padded word, the remaining 0..7 bits by arithmetic.
Shr128(a, k) ==
    LET d == Pow2(k % 8)
        e == Pow2(8 - (k % 8))
        t == SubSeq(a, (k \div 8) + 1, 16) \o <<0, 0, 0, 0, 0, 0, 0, 0, 0, 0, 0, 0, 0, 0, 0, 0, 0>>
    IN  <<(t[1] \div d) + (t[2] % d) * e, (t[2] \div d) + (t[3] % d) * e,
          (t[3] \div d) + (t[4] % d) * e, (t[4] \div d) + (t[5] % d) * e,
          (t[5] \div d) + (t[6] % d) * e, (t[6] \div d) + (t[7] % d) * e,
          (t[7] \div d) + (t[8] % d) * e, (t[8] \div d) + (t[9] % d) * e,
          (t[9] \div d) + (t[10] % d) * e, (t[10] \div d) + (t[11] % d) * e,
          (t[11] \div d) + (t[12] % d) * e, (t[12] \div d) + (t[13] % d) * e,
          (t[13] \div d) + (t[14] % d) * e, (t[14] \div d) + (t[15] % d) * e,
          (t[15] \div d) + (t[16] % d) * e, (t[16] \div d) + (t[17] % d) * e>>
Shl128(a, k) ==
    LET d == Pow2(k % 8)
        e == Pow2(8 - (k % 8))
        u == SubSeq(<<0, 0, 0, 0, 0, 0, 0, 0, 0, 0, 0, 0, 0, 0, 0, 0, 0>> \o a, 17 - (k \div 8), 33 - (k \div 8))
    IN  <<((u[2] * d) % 256) + (u[1] \div e), ((u[3] * d) % 256) + (u[2] \div e),
          ((u[4] * d) % 256) + (u[3] \div e), ((u[5] * d) % 256) + (u[4] \div e),
          ((u[6] * d) % 256) + (u[5] \div e), ((u[7] * d) % 256) + (u[6] \div e),
          ((u[8] * d) % 256) + (u[7] \div e), ((u[9] * d) % 256) + (u[8] \div e),
          ((u[10] * d) % 256) + (u[9] \div e), ((u[11] * d) % 256) + (u[10] \div e),
          ((u[12] * d) % 256) + (u[11] \div e), ((u[13] * d) % 256) + (u[12] \div e),
          ((u[14] * d) % 256) + (u[13] \div e), ((u[15] * d) % 256) + (u[14] \div e),
          ((u[16] * d) % 256) + (u[15] \div e), ((u[17] * d) % 256) + (u[16] \div e)>>
Shr64(a, k) ==
    LET d == Pow2(k % 8)
        e == Pow2(8 - (k % 8))
        t == SubSeq(a, (k \div 8) + 1, 8) \o <<0, 0, 0, 0, 0, 0, 0, 0, 0>>
    IN  <<(t[1] \div d) + (t[2] % d) * e, (t[2] \div d) + (t[3] % d) * e,
          (t[3] \div d) + (t[4] % d) * e, (t[4] \div d) + (t[5] % d) * e,
          (t[5] \div d) + (t[6] % d) * e, (t[6] \div d) + (t[7] % d) * e,
          (t[7] \div d) + (t[8] % d) * e, (t[8] \div d) + (t[9] % d) * e>>
Shl64(a, k) ==
    LET d == Pow2(k % 8)
        e == Pow2(8 - (k % 8))
        u == SubSeq(<<0, 0, 0, 0, 0, 0, 0, 0, 0>> \o a, 9 - (k \div 8), 17 - (k \div 8))
    IN  <<((u[2] * d) % 256) + (u[1] \div e), ((u[3] * d) % 256) + (u[2] \div e),
          ((u[4] * d) % 256) + (u[3] \div e), ((u[5] * d) % 256) + (u[4] \div e),
          ((u[6] * d) % 256) + (u[5] \div e), ((u[7] * d) % 256) + (u[6] \div e),
          ((u[8] * d) % 256) + (u[7] \div e), ((u[9] * d) % 256) + (u[8] \div e)>>

\* u128 wrapping_mul, wrapping_add, wrapping_sub (what #[wrappit] makes of * + -).
wrapping_mul_128(a, b) == Carry128(MulCols128(a, b))
wrapping_add_128(a, b) == Carry128(<<a[1]+b[1], a[2]+b[2], a[3]+b[3], a[4]+b[4], a[5]+b[5], a[6]+b[6], a[7]+b[7], a[8]+b[8],
                                   a[9]+b[9], a[10]+b[10], a[11]+b[11], a[12]+b[12], a[13]+b[13], a[14]+b[14], a[15]+b[15], a[16]+b[16]>>)
\* a - b = a + !b + 1 (mod 2^128)
wrapping_sub_128(a, b) == wrapping_add_128(wrapping_add_128(a, Not128(b)), One128)
wrapping_neg_128(a) == wrapping_sub_128(Zero128, a)

\* u64 wrapping_mul, wrapping_add.
wrapping_mul_64(a, b) == Carry64(MulCols64(a, b))
wrapping_add_64(a, b) == Carry64(<<a[1]+b[1], a[2]+b[2], a[3]+b[3], a[4]+b[4], a[5]+b[5], a[6]+b[6], a[7]+b[7], a[8]+b[8]>>)

\* Casts: `x as u64` of a u128 / `x as u32` of a u64 (truncation), and
\* `x as u128` of a u64 / `x as u64` of a u32 (zero extension).
as_u64(x) == SubSeq(x, 1, 8)
as_u32(x) == SubSeq(x, 1, 4)
as_u128(x) == x \o Zero64
u32_as_u64(x) == x \o <<0, 0, 0, 0>>
u32_as_u128(x) == x \o <<0, 0, 0, 0>> \o Zero64

\* i128_as_u128 as a one's complement conversion.
i128_as_u128_ones_complement(d) == IF d.neg THEN Not128(d.mag) ELSE d.mag

\* i128 values are [neg, mag]: the number is -mag when neg, else mag.
\* `steps as u128` reinterprets the two's complement bits.
i128_as_u128(d) == IF d.neg THEN wrapping_neg_128(d.mag) ELSE d.mag
\* `delta as i128` of a u128: values with the top bit set are negative.
u128_as_i128(u) ==
    IF u[16] >= 128 THEN [neg |-> TRUE, mag |-> wrapping_neg_128(u)]
    ELSE [neg |-> FALSE, mag |-> u]

(***************************************************************************)
(* Constants of src/src/lib.rs and of the output hash.                     *)
(***************************************************************************)
\* 0xde92a69f6e2f9f25fd0d90f576075fbd
LCG_M128_1 == <<189, 95, 7, 118, 245, 144, 13, 253, 37, 159, 47, 110, 159, 166, 146, 222>>
\* 0x576bc0a2178fcf7c619f3ebc7363f7f5
LCG_M128_2 == <<245, 247, 99, 115, 188, 62, 159, 97, 124, 207, 143, 23, 162, 192, 107, 87>>
\* 0x87ea3de194dd2e97074f3d0c2ea63d35
LCG_M128_3 == <<53, 61, 166, 46, 12, 61, 79, 7, 151, 46, 221, 148, 225, 61, 234, 135>>
\* 0xf48c0745581cf801619cd45257f0ab65
LCG_M128_4 == <<101, 171, 240, 87, 82, 212, 156, 97, 1, 248, 28, 88, 69, 7, 140, 244>>
\* 0x1df77a66a374e300d
LCG_M65_1 == <<13, 48, 78, 55, 106, 166, 119, 223, 1, 0, 0, 0, 0, 0, 0, 0>>
\* 0x1d605bbb58c8abbfd
LCG_M65_2 == <<253, 187, 138, 140, 181, 187, 5, 214, 1, 0, 0, 0, 0, 0, 0, 0>>
\* 0x1d7d8dd3a6a72b43d
LCG_M65_3 == <<61, 180, 114, 106, 58, 221, 216, 215, 1, 0, 0, 0, 0, 0, 0, 0>>
\* 0x1f20529e418340d05
LCG_M65_4 == <<5, 13, 52, 24, 228, 41, 5, 242, 1, 0, 0, 0, 0, 0, 0, 0>>
\* 0xbf58476d1ce4e5b9, 0x94d049bb133111eb, 0xd6e8feb86659fd93
HASH_C1 == <<185, 229, 228, 28, 109, 71, 88, 191>>
HASH_C2 == <<235, 17, 49, 19, 187, 73, 208, 148>>
HASH_C3 == <<147, 253, 89, 102, 184, 254, 232, 214>>

(***************************************************************************)
(* LCG kernel, src/src/lcg.rs.  Each loop is a recursion over the record   *)
(* of the loop's local variables; `iters` counts the loop's iterations.    *)
(* A while loop `while c { body }` is evaluated in rounds of up to 2^7     *)
(* passes, the condition c being tested before every pass, and rounds are  *)
(* repeated while c holds: *_passes(s, k) makes up to 2^k passes, so that  *)
(* the depth of the evaluation grows with k and not with the number of     *)
(* passes.                                                                 *)
(***************************************************************************)
\* get_jump_body accumulating the increment as jump_p + unit_p, without the
\* multiplication by unit_m.
get_jump_body_additive(s) ==
    LET odd == s.delta[1] % 2 = 1 IN
    [unit_m |-> wrapping_mul_128(s.unit_m, s.unit_m),
     unit_p |-> wrapping_mul_128(wrapping_add_128(s.unit_m, One128), s.unit_p),
     jump_m |-> IF odd THEN wrapping_mul_128(s.jump_m, s.unit_m) ELSE s.jump_m,
     jump_p |-> IF odd THEN wrapping_add_128(s.jump_p, s.unit_p) ELSE s.jump_p,
     delta |-> Shr128(s.delta, 1),
     iters |-> s.iters + 1]

get_jump_body(s) ==
    LET odd == s.delta[1] % 2 = 1 IN
    [unit_m |-> wrapping_mul_128(s.unit_m, s.unit_m),
     unit_p |-> wrapping_mul_128(wrapping_add_128(s.unit_m, One128), s.unit_p),
     jump_m |-> IF odd THEN wrapping_mul_128(s.jump_m, s.unit_m) ELSE s.jump_m,
     jump_p |-> IF odd THEN wrapping_add_128(wrapping_mul_128(s.jump_p, s.unit_m), s.unit_p) ELSE s.jump_p,
     delta |-> Shr128(s.delta, 1),
     iters |-> s.iters + 1]

RECURSIVE get_jump_passes(_, _)
get_jump_passes(s, k) ==
    IF s.delta = Zero128 THEN s
    ELSE IF k = 0 THEN get_jump_body(s)
    ELSE get_jump_passes(get_jump_passes(s, k - 1), k - 1)

RECURSIVE get_jump_loop(_)
get_jump_loop(s) == IF s.delta # Zero128 THEN get_jump_loop(get_jump_passes(s, 7)) ELSE s

\* (jump_m, jump_p) of the loop's final variables.
get_jump_result(s) == <<s.jump_m, s.jump_p>>

get_jump(m, p, n) ==
    get_jump_result(
        get_jump_loop([unit_m |-> m, unit_p |-> p, jump_m |-> One128, jump_p |-> Zero128,
                       delta |-> n, iters |-> 0]))

\* get_iterations_body comparing the whole words instead of the current bit.
get_iterations_body_whole_word(s, state) ==
    LET differ == s.address # state IN
    [jump_m |-> wrapping_mul_128(s.jump_m, s.jump_m),
     jump_p |-> wrapping_mul_128(wrapping_add_128(s.jump_m, One128), s.jump_p),
     ordinal |-> IF differ THEN wrapping_add_128(s.ordinal, s.bit) ELSE s.ordinal,
     bit |-> Shl128(s.bit, 1),
     address |-> IF differ THEN wrapping_add_128(wrapping_mul_128(s.address, s.jump_m), s.jump_p)
                 ELSE s.address,
     iters |-> s.iters + 1]

get_iterations_body(s, state) ==
    LET differ == And128(s.bit, s.address) # And128(s.bit, state) IN
    [jump_m |-> wrapping_mul_128(s.jump_m, s.jump_m),
     jump_p |-> wrapping_mul_128(wrapping_add_128(s.jump_m, One128), s.jump_p),
     ordinal |-> IF differ THEN wrapping_add_128(s.ordinal, s.bit) ELSE s.ordinal,
     bit |-> Shl128(s.bit, 1),
     address |-> IF differ THEN wrapping_add_128(wrapping_mul_128(s.address, s.jump_m), s.jump_p)
                 ELSE s.address,
     iters |-> s.iters + 1]

RECURSIVE get_iterations_passes(_, _, _)
get_iterations_passes(s, state, k) ==
    IF s.address = state THEN s
    ELSE IF k = 0 THEN get_iterations_body(s, state)
    ELSE get_iterations_passes(get_iterations_passes(s, state, k - 1), state, k - 1)

RECURSIVE get_iterations_loop(_, _)
get_iterations_loop(s, state) ==
    IF s.address # state THEN get_iterations_loop(get_iterations_passes(s, state, 7), state)
    ELSE s

get_iterations(m, p, origin, state) ==
    get_iterations_loop([jump_m |-> m, jump_p |-> p, ordinal |-> Zero128, bit |-> One128,
                         address |-> origin, iters |-> 0], state).ordinal

\* get_state_body squaring the jump only in the iterations that apply it.
get_state_body_doubling_inside_if(s) ==
    IF s.ordinal[1] % 2 = 1
    THEN [jump_m |-> wrapping_mul_128(s.jump_m, s.jump_m),
          jump_p |-> wrapping_mul_128(wrapping_add_128(s.jump_m, One128), s.jump_p),
          state |-> wrapping_add_128(wrapping_mul_128(s.state, s.jump_m), s.jump_p),
          ordinal |-> Shr128(s.ordinal, 1),
          iters |-> s.iters + 1]
    ELSE [s EXCEPT !.ordinal = Shr128(s.ordinal, 1), !.iters = s.iters + 1]

\* get_state_body with jump_p doubled as m * p instead of (m + 1) * p.
get_state_body_plain_increment(s) ==
    [jump_m |-> wrapping_mul_128(s.jump_m, s.jump_m),
     jump_p |-> wrapping_mul_128(s.jump_m, s.jump_p),
     state |-> IF s.ordinal[1] % 2 = 1
               THEN wrapping_add_128(wrapping_mul_128(s.state, s.jump_m), s.jump_p)
               ELSE s.state,
     ordinal |-> Shr128(s.ordinal, 1),
     iters |-> s.iters + 1]

get_state_body(s) ==
    [jump_m |-> wrapping_mul_128(s.jump_m, s.jump_m),
     jump_p |-> wrapping_mul_128(wrapping_add_128(s.jump_m, One128), s.jump_p),
     state |-> IF s.ordinal[1] % 2 = 1
               THEN wrapping_add_128(wrapping_mul_128(s.state, s.jump_m), s.jump_p)
               ELSE s.state,
     ordinal |-> Shr128(s.ordinal, 1),
     iters |-> s.iters + 1]

RECURSIVE get_state_passes(_, _)
get_state_passes(s, k) ==
    IF s.ordinal = Zero128 THEN s
    ELSE IF k = 0 THEN get_state_body(s)
    ELSE get_state_passes(get_state_passes(s, k - 1), k - 1)

RECURSIVE get_state_loop(_)
get_state_loop(s) == IF s.ordinal # Zero128 THEN get_state_loop(get_state_passes(s, 7)) ELSE s

get_state(m, p, origin, iterations) ==
    get_state_loop([jump_m |-> m, jump_p |-> p, state |-> origin, ordinal |-> iterations,
                    iters |-> 0]).state

(***************************************************************************)
(* Byte order conversions.  A [u8; N] is a function on 0..N-1.             *)
(***************************************************************************)
u128_from_le_bytes(bytes) == SubSeq([i \in 1..16 |-> bytes[i - 1]], 1, 16)
u64_from_le_bytes(bytes) == SubSeq([i \in 1..8 |-> bytes[i - 1]], 1, 8)
u64_to_le_bytes(x) == [i \in 0..7 |-> x[i + 1]]

\* The output hash shared by Krull64::get and Krull65::get: three rounds
\* x = (x ^ (x >> k)) * c, then x ^ (x >> 32).
hash_round(x, k, c) == wrapping_mul_64(Xor64(x, Shr64(x, k)), c)
hash_last(x) == Xor64(x, Shr64(x, 32))
output_hash(x0) ==
    hash_last(hash_round(hash_round(hash_round(x0, 30, HASH_C1), 27, HASH_C2), 31, HASH_C3))

\* `self.step() as u32`: r is [self, ret] as returned by step / next.
ret_as_u32(r) == [self |-> r.self, ret |-> as_u32(r.ret)]

Min(a, b) == IF a < b THEN a ELSE b

\* copy_le_bytes with the word written big-endian.
copy_be_bytes(dest, i, j, x) ==
    [t \in 1..Len(dest) |-> IF t - 1 >= i /\ t - 1 < j THEN u64_to_le_bytes(x)[7 - (t - 1 - i)] ELSE dest[t]]

\* dest[i..j].copy_from_slice(&x.to_le_bytes()[0..(j - i)]); dest is a sequence,
\* its element of Rust index t is dest[t + 1].
copy_le_bytes(dest, i, j, x) ==
    [t \in 1..Len(dest) |-> IF t - 1 >= i /\ t - 1 < j THEN u64_to_le_bytes(x)[t - 1 - i] ELSE dest[t]]

\* The end of one iteration of the loop of fill_bytes: s is [self, dest, i],
\* r the [self, ret] of the output x just taken, j the end of the chunk.
fill_bytes_store(s, r, j) ==
    [self |-> r.self,
     dest |-> SubSeq(copy_le_bytes(s.dest, s.i, j, r.ret), 1, Len(s.dest)),
     i |-> j]

(***************************************************************************)
(* Krull64, src/src/krull64.rs.  A value is [ty, lcg0, lcg1, stream].      *)
(***************************************************************************)
origin_0(stream) == Not64(stream)
origin_128(stream) == as_u128(origin_0(stream))

Krull64_lcg_128(self) == Or128(as_u128(self.lcg0), Shl128(as_u128(self.lcg1), 64))
Krull64_multiplier(self) == as_u64(LCG_M65_1)
Krull64_multiplier_128(self) == LCG_M65_1
\* Krull64_increment_128 without the low bit set: (stream as u128) << 1.
Krull64_increment_128_even(self) == Shl128(as_u128(self.stream), 1)
Krull64_increment_128(self) == Or128(Shl128(as_u128(self.stream), 1), One128)
Krull64_origin_0(self) == origin_0(self.stream)
Krull64_origin_128(self) == origin_128(self.stream)

\* self.lcg0 = lcg as u64; self.lcg1 = (lcg >> 64) as u64
Krull64_set_lcg_128(self, lcg) ==
    [self EXCEPT !.lcg0 = as_u64(lcg), !.lcg1 = as_u64(Shr128(lcg, 64))]

\* Krull64_get hashing the low word of the LCG instead of the high word.
Krull64_get_low(self) == output_hash(self.lcg0)

Krull64_get(self) == output_hash(self.lcg1)

\* [self |-> the generator, ret |-> its current output]: what step() and
\* step_slow() leave and return.
Krull64_with_get(self) == [self |-> self, ret |-> Krull64_get(self)]

\* let lcg = (self.lcg0 as u128) * self.multiplier() as u128 + self.increment_128()
Krull64_step_lcg(self) ==
    wrapping_add_128(
        wrapping_mul_128(as_u128(self.lcg0), as_u128(Krull64_multiplier(self))),
        Krull64_increment_128(self))

\* Krull64_step_store with the multiplier taken as 64 bits wide: the term for
\* its bit 64 (+ self.lcg0) is left out of the high word.
Krull64_step_store_m64(self, lcg) ==
    [self EXCEPT !.lcg1 = wrapping_add_64(as_u64(Shr128(lcg, 64)),
                                          wrapping_mul_64(self.lcg1, Krull64_multiplier(self))),
                 !.lcg0 = as_u64(lcg)]

\* self.lcg1 = ((lcg >> 64) as u64) + self.lcg1 * self.multiplier() + self.lcg0;
\* self.lcg0 = lcg as u64
Krull64_step_store(self, lcg) ==
    [self EXCEPT !.lcg1 = wrapping_add_64(
                              wrapping_add_64(as_u64(Shr128(lcg, 64)),
                                              wrapping_mul_64(self.lcg1, Krull64_multiplier(self))),
                              self.lcg0),
                 !.lcg0 = as_u64(lcg)]

Krull64_step(self) == Krull64_with_get(Krull64_step_store(self, Krull64_step_lcg(self)))

\* self.step() as u128 | ((self.step() as u128) << 64): two steps, the first
\* output in the low half of the result and the second in the high half.
Krull64_step_128(self) ==
    [self |-> Krull64_step(Krull64_step(self).self).self,
     ret  |-> Or128(as_u128(Krull64_step(self).ret),
                    Shl128(as_u128(Krull64_step(Krull64_step(self).self).ret), 64))]

Krull64_step_slow(self) ==
    Krull64_with_get(
        Krull64_set_lcg_128(self,
            wrapping_add_128(
                wrapping_mul_128(Krull64_lcg_128(self), Krull64_multiplier_128(self)),
                Krull64_increment_128(self))))

Krull64_new == [ty |-> "Krull64", lcg0 |-> origin_0(Zero64), lcg1 |-> Zero64, stream |-> Zero64]

Krull64_from_64(seed) ==
    [ty |-> "Krull64", lcg0 |-> origin_0(seed), lcg1 |-> Zero64, stream |-> seed]

Krull64_from_32(seed) == Krull64_from_64(u32_as_u64(seed))

Krull64_jump(self, steps) ==
    Krull64_set_lcg_128(self,
        get_state(Krull64_multiplier_128(self), Krull64_increment_128(self),
                  Krull64_lcg_128(self), i128_as_u128(steps)))

Krull64_position(self) ==
    get_iterations(Krull64_multiplier_128(self), Krull64_increment_128(self),
                   Krull64_origin_128(self), Krull64_lcg_128(self))

Krull64_set_position(self, position) ==
    Krull64_set_lcg_128(self,
        get_state(Krull64_multiplier_128(self), Krull64_increment_128(self),
                  Krull64_origin_128(self), position))

\* Krull64_from_128 with the position taken from the high half of the seed.
Krull64_from_128_high(seed) ==
    Krull64_set_position(Krull64_from_64(as_u64(Xor128(Shr128(seed, 64), seed))), Shr128(seed, 64))

\* Krull64_from_128 taking the stream from the low half of the seed alone.
Krull64_from_128_stream_low(seed) ==
    Krull64_set_position(Krull64_from_64(as_u64(seed)), Shl128(seed, 64))

Krull64_from_128(seed) ==
    Krull64_set_position(Krull64_from_64(as_u64(Xor128(Shr128(seed, 64), seed))), Shl128(seed, 64))

\* Krull64_reset setting the low word only: the high word of the LCG stays.
Krull64_reset_low_word(self) == [self EXCEPT !.lcg0 = Krull64_origin_0(self)]

Krull64_reset(self) == [self EXCEPT !.lcg0 = Krull64_origin_0(self), !.lcg1 = Zero64]

Krull64_stream(self) == self.stream

Krull64_set_stream(self, stream) == Krull64_reset([self EXCEPT !.stream = stream])

\* next_u32, next_u64 return [self |-> the generator afterwards, ret |-> the output].
Krull64_next_u32(self) == ret_as_u32(Krull64_step(self))

Krull64_next_u64(self) == Krull64_step(self)

\* One iteration of the loop of fill_bytes; s is [self, dest, i].
Krull64_fill_bytes_body(s) ==
    fill_bytes_store(s, Krull64_step(s.self), Min(Len(s.dest), s.i + 8))

RECURSIVE Krull64_fill_bytes_loop(_)
Krull64_fill_bytes_loop(s) ==
    IF s.i < Len(s.dest) THEN Krull64_fill_bytes_loop(Krull64_fill_bytes_body(s)) ELSE s

\* Returns [self |-> the generator afterwards, dest |-> dest as written, i |-> Len(dest)].
Krull64_fill_bytes(self, dest) ==
    Krull64_fill_bytes_loop([self |-> self, dest |-> dest, i |-> 0])

Krull64_from_seed(seed) == Krull64_from_128(u128_from_le_bytes(seed))

\* #[derive(Clone, Eq, PartialEq)]: a clone copies the three fields, and two
\* values are equal when the three fields are.
Krull64_clone(self) ==
    [ty |-> "Krull64", lcg0 |-> self.lcg0, lcg1 |-> self.lcg1, stream |-> self.stream]

Krull64_eq(self, other) ==
    /\ self.lcg0 = other.lcg0
    /\ self.lcg1 = other.lcg1
    /\ self.stream = other.stream

(***************************************************************************)
(* Krull65, src/src/krull65.rs.  A value is [ty, a0, a1, b0, b1, c1].      *)
(***************************************************************************)
origin_a0 == Zero64
origin_a_128 == as_u128(origin_a0)
origin_b0 == One64
origin_b_128 == as_u128(origin_b0)

Krull65_multiplier_a(self) == as_u64(LCG_M65_1)
Krull65_multiplier_a_128(self) == LCG_M65_1
Krull65_multiplier_b(self) == as_u64(LCG_M65_4)
Krull65_multiplier_b_128(self) == LCG_M65_4
Krull65_increment_a_128(self) == Xor128(Shl128(as_u128(self.c1), 1), LCG_M128_1)
Krull65_increment_b_128(self) == Xor128(Shl128(as_u128(self.c1), 1), One128)
Krull65_a_128(self) == Or128(as_u128(self.a0), Shl128(as_u128(self.a1), 64))
Krull65_set_a_128(self, a) == [self EXCEPT !.a0 = as_u64(a), !.a1 = as_u64(Shr128(a, 64))]
Krull65_b_128(self) == Or128(as_u128(self.b0), Shl128(as_u128(self.b1), 64))
Krull65_set_b_128(self, b) == [self EXCEPT !.b0 = as_u64(b), !.b1 = as_u64(Shr128(b, 64))]

\* let a = (self.a0 as u128) * (self.multiplier_a() as u128) + self.increment_a_128()
Krull65_step_a(self) ==
    wrapping_add_128(
        wrapping_mul_128(as_u128(self.a0), as_u128(Krull65_multiplier_a(self))),
        Krull65_increment_a_128(self))

\* Krull65_step_b multiplying by the multiplier of LCG A.
Krull65_step_b_multiplier_a(self) ==
    wrapping_add_128(
        wrapping_mul_128(as_u128(self.b0), as_u128(Krull65_multiplier_a(self))),
        Krull65_increment_b_128(self))

\* let b = (self.b0 as u128) * (self.multiplier_b() as u128) + self.increment_b_128()
Krull65_step_b(self) ==
    wrapping_add_128(
        wrapping_mul_128(as_u128(self.b0), as_u128(Krull65_multiplier_b(self))),
        Krull65_increment_b_128(self))

\* Krull65_step_store advancing LCG A only: b1 and b0 are left as they were.
Krull65_step_store_a_only(self, a, b) ==
    [self EXCEPT !.a1 = wrapping_add_64(
                            wrapping_add_64(as_u64(Shr128(a, 64)),
                                            wrapping_mul_64(self.a1, Krull65_multiplier_a(self))),
                            self.a0),
                 !.a0 = as_u64(a)]

\* The four assignments of step(), given a and b.
Krull65_step_store(self, a, b) ==
    [self EXCEPT !.a1 = wrapping_add_64(
                            wrapping_add_64(as_u64(Shr128(a, 64)),
                                            wrapping_mul_64(self.a1, Krull65_multiplier_a(self))),
                            self.a0),
                 !.a0 = as_u64(a),
                 !.b1 = wrapping_add_64(
                            wrapping_add_64(as_u64(Shr128(b, 64)),
                                            wrapping_mul_64(self.b1, Krull65_multiplier_b(self))),
                            self.b0),
                 !.b0 = as_u64(b)]

Krull65_step(self) == Krull65_step_store(self, Krull65_step_a(self), Krull65_step_b(self))

Krull65_get(self) ==
    output_hash(Xor64(Xor64(self.b1, Shl64(self.a1, 32)), Shr64(self.a1, 32)))

Krull65_with_get(self) == [self |-> self, ret |-> Krull65_get(self)]

\* next() returns [self |-> the generator afterwards, ret |-> the output].
Krull65_next(self) == Krull65_with_get(Krull65_step(self))

Krull65_new ==
    [ty |-> "Krull65", a0 |-> origin_a0, a1 |-> Zero64, b0 |-> origin_b0, b1 |-> Zero64,
     c1 |-> Zero64]

\* The first statement of jump(): LCG A jumps.
Krull65_jump_a(self, steps) ==
    Krull65_set_a_128(self,
        get_state(Krull65_multiplier_a_128(self), Krull65_increment_a_128(self),
                  Krull65_a_128(self), i128_as_u128(steps)))

\* The second statement of jump(): LCG B jumps.
Krull65_jump_b(self, steps) ==
    Krull65_set_b_128(self,
        get_state(Krull65_multiplier_b_128(self), Krull65_increment_b_128(self),
                  Krull65_b_128(self), i128_as_u128(steps)))

\* Krull65_jump moving LCG A only.
Krull65_jump_a_only(self, steps) == Krull65_jump_a(self, steps)

Krull65_jump(self, steps) == Krull65_jump_b(Krull65_jump_a(self, steps), steps)

Krull65_position(self) ==
    get_iterations(Krull65_multiplier_a_128(self), Krull65_increment_a_128(self),
                   origin_a_128, Krull65_a_128(self))

\* Krull65_set_position with the subtraction the other way round.
Krull65_set_position_reversed(self, position) ==
    Krull65_jump(self, u128_as_i128(wrapping_sub_128(Krull65_position(self), position)))

Krull65_set_position(self, position) ==
    Krull65_jump(self, u128_as_i128(wrapping_sub_128(position, Krull65_position(self))))

Krull65_reset(self) ==
    [self EXCEPT !.a0 = origin_a0, !.a1 = Zero64, !.b0 = origin_b0, !.b1 = Zero64]

\* let b_n = get_iterations(multiplier_b, increment_b, origin_b, b): the
\* position of LCG B.
Krull65_position_b(self) ==
    get_iterations(Krull65_multiplier_b_128(self), Krull65_increment_b_128(self),
                   origin_b_128, Krull65_b_128(self))

\* (((delta ^ self.c1) as u128) << 64) | (delta as u128)
Krull65_stream_of(self, delta) ==
    Or128(Shl128(as_u128(Xor64(delta, self.c1)), 64), as_u128(delta))

Krull65_stream(self) ==
    Krull65_stream_of(self,
        as_u64(wrapping_sub_128(Krull65_position_b(self), Krull65_position(self))))

\* Krull65_set_stream_b placing LCG B `stream` iterations after its origin,
\* without the truncation of the stream to its low 64 bits.
Krull65_set_stream_b_untruncated(self, stream) ==
    Krull65_set_b_128(self,
        get_state(Krull65_multiplier_b_128(self), Krull65_increment_b_128(self),
                  origin_b_128, stream))

\* The last statement of set_stream(): LCG B is placed (stream as u64)
\* iterations after its origin.
Krull65_set_stream_b(self, stream) ==
    Krull65_set_b_128(self,
        get_state(Krull65_multiplier_b_128(self), Krull65_increment_b_128(self),
                  origin_b_128, as_u128(as_u64(stream))))

\* Krull65_set_stream keeping the high half of the stream in c1 as it is.
Krull65_set_stream_plain_c1(self, stream) ==
    Krull65_set_stream_b(Krull65_reset([self EXCEPT !.c1 = as_u64(Shr128(stream, 64))]), stream)

Krull65_set_stream(self, stream) ==
    Krull65_set_stream_b(
        Krull65_reset([self EXCEPT !.c1 = as_u64(Xor128(stream, Shr128(stream, 64)))]),
        stream)

Krull65_from_32(seed) == Krull65_set_stream(Krull65_new, u32_as_u128(seed))
Krull65_from_64(seed) == Krull65_set_stream(Krull65_new, as_u128(seed))
Krull65_from_128(seed) == Krull65_set_stream(Krull65_new, seed)

\* Krull65_from_192 setting the position before the stream.
Krull65_from_192_position_first(seed0, seed1) ==
    Krull65_set_stream(Krull65_set_position(Krull65_new, Shl128(as_u128(seed1), 64)),
                       Xor128(seed0, as_u128(seed1)))

Krull65_from_192(seed0, seed1) ==
    Krull65_set_position(Krull65_set_stream(Krull65_new, Xor128(seed0, as_u128(seed1))),
                         Shl128(as_u128(seed1), 64))

Krull65_next_u32(self) == ret_as_u32(Krull65_next(self))

Krull65_next_u64(self) == Krull65_next(self)

Krull65_fill_bytes_body(s) ==
    fill_bytes_store(s, Krull65_next(s.self), Min(Len(s.dest), s.i + 8))

RECURSIVE Krull65_fill_bytes_loop(_)
Krull65_fill_bytes_loop(s) ==
    IF s.i < Len(s.dest) THEN Krull65_fill_bytes_loop(Krull65_fill_bytes_body(s)) ELSE s

Krull65_fill_bytes(self, dest) ==
    Krull65_fill_bytes_loop([self |-> self, dest |-> dest, i |-> 0])

\* seed[0 .. 16] and seed[16 .. 24] of a [u8; 24].
Krull65_from_seed(seed) ==
    Krull65_from_192(u128_from_le_bytes([i \in 0..15 |-> seed[i]]),
                     u64_from_le_bytes([i \in 0..7 |-> seed[16 + i]]))

\* #[derive(Clone, Eq, PartialEq)]: a clone copies the five fields, and two
\* values are equal when the five fields are.
Krull65_clone(self) ==
    [ty |-> "Krull65", a0 |-> self.a0, a1 |-> self.a1, b0 |-> self.b0, b1 |-> self.b1,
     c1 |-> self.c1]

Krull65_eq(self, other) ==
    /\ self.a0 = other.a0
    /\ self.a1 = other.a1
    /\ self.b0 = other.b0
    /\ self.b1 = other.b1
    /\ self.c1 = other.c1

(***************************************************************************)
(* Inputs.  Rnd(i) is the i-th value of the tests' generator               *)
(* r = r.wrapping_mul(LCG_M128_1).wrapping_add(0xffff), starting from 0.   *)
(***************************************************************************)
RECURSIVE Rnd(_)
Rnd(i) ==
    IF i = 0 THEN Zero128
    ELSE wrapping_add_128(wrapping_mul_128(Rnd(i - 1), LCG_M128_1),
                          <<255, 255, 0, 0, 0, 0, 0, 0, 0, 0, 0, 0, 0, 0, 0, 0>>)

\* The bytes of the words w (16 bytes) and w, v (16 + 8 bytes) as seed arrays.
Bytes16(w) == [i \in 0..15 |-> w[i + 1]]
Bytes24(w, v) == [i \in 0..23 |-> IF i < 16 THEN w[i + 1] ELSE v[i - 15]]

Seeds32 == {as_u32(Rnd(2))}
Seeds64 == {as_u64(Rnd(2))}
Seeds128 == {Max128, Rnd(3)}
Seeds192 == {<<Rnd(3), Max64>>, <<One128, as_u64(Rnd(1))>>}
SeedBytes16 == {Bytes16(Rnd(2))}
SeedBytes24 == {Bytes24(Rnd(3), as_u64(Rnd(4)))}
Streams64 == {as_u64(Rnd(5))}
Streams128 == {Rnd(5)}
Positions == {Max128, Shr128(Rnd(7), 56)}
Jumps == {[neg |-> FALSE, mag |-> Zero128], [neg |-> TRUE, mag |-> One128],
          [neg |-> FALSE, mag |-> Shr128(Rnd(6), 61)]}
Lengths == {0, 8, MaxLen}

NoArg == <<>>
NoCall == [fn |-> "none"]

\* What the accessors stream() and position() return for a generator.
Coordinates64(self) == [stream |-> Krull64_stream(self), position |-> Krull64_position(self)]
Coordinates65(self) == [stream |-> Krull65_stream(self), position |-> Krull65_position(self)]

(***************************************************************************)
(* The generator under test: constructed in Init, then operated on.  After *)
(* every operation the accessors are read, as the tests do.                *)
(***************************************************************************)
Constructed(k, coordinates, name, arg) ==
    /\ krull = k
    /\ here = coordinates
    /\ pre = k
    /\ before = coordinates
    /\ op = [name |-> name, arg |-> arg]
    /\ out = <<>>
    /\ ops = 0
    /\ run = [p0 |-> coordinates.position, k |-> 0]
    /\ call = NoCall

Constructed64(k, name, arg) == Constructed(k, Coordinates64(k), name, arg)
Constructed65(k, name, arg) == Constructed(k, Coordinates65(k), name, arg)

Init ==
    \/ Constructed64(Krull64_new, "new", NoArg)
    \/ \E seed \in Seeds32 : Constructed64(Krull64_from_32(seed), "from_32", seed)
    \/ \E seed \in Seeds64 : Constructed64(Krull64_from_64(seed), "from_64", seed)
    \/ \E seed \in Seeds128 : Constructed64(Krull64_from_128(seed), "from_128", seed)
    \/ \E seed \in SeedBytes16 : Constructed64(Krull64_from_seed(seed), "from_seed", seed)
    \/ Constructed65(Krull65_new, "new", NoArg)
    \/ \E seed \in Seeds32 : Constructed65(Krull65_from_32(seed), "from_32", seed)
    \/ \E seed \in Seeds64 : Constructed65(Krull65_from_64(seed), "from_64", seed)
    \/ \E seed \in Seeds128 : Constructed65(Krull65_from_128(seed), "from_128", seed)
    \/ \E seed \in Seeds192 : Constructed65(Krull65_from_192(seed[1], seed[2]), "from_192", seed)
    \/ \E seed \in SeedBytes24 : Constructed65(Krull65_from_seed(seed), "from_seed", seed)

\* An operation `name(arg)` took the generator to `k`, whose accessors now
\* return `coordinates`, and returned `ret`.
Applied(k, coordinates, name, arg, ret) ==
    /\ krull' = k
    /\ here' = coordinates
    /\ pre' = krull
    /\ before' = here
    /\ op' = [name |-> name, arg |-> arg]
    /\ out' = ret
    /\ ops' = ops + 1
    /\ run' = IF name = "next_u64" THEN [run EXCEPT !.k = run.k + 1]
              ELSE [p0 |-> coordinates.position, k |-> 0]
    /\ UNCHANGED call

Applied64(k, name, arg, ret) == Applied(k, Coordinates64(k), name, arg, ret)
Applied65(k, name, arg, ret) == Applied(k, Coordinates65(k), name, arg, ret)

Is64 == ops < MaxOps /\ krull.ty = "Krull64"
Is65 == ops < MaxOps /\ krull.ty = "Krull65"

Call64_next_u32 ==
    /\ Is64
    /\ \E r \in {Krull64_next_u32(krull)} : Applied64(r.self, "next_u32", NoArg, r.ret)

Call64_next_u64 ==
    /\ Is64
    /\ \E r \in {Krull64_next_u64(krull)} : Applied64(r.self, "next_u64", NoArg, r.ret)

Call64_step_128 ==
    /\ Is64
    /\ \E r \in {Krull64_step_128(krull)} : Applied64(r.self, "step_128", NoArg, r.ret)

Call64_fill_bytes ==
    /\ Is64
    /\ \E len \in Lengths :
          \E r \in {Krull64_fill_bytes(krull, [i \in 1..len |-> 0])} :
              Applied64(r.self, "fill_bytes", len, r.dest)

Call64_jump ==
    /\ Is64
    /\ \E steps \in Jumps : Applied64(Krull64_jump(krull, steps), "jump", steps, <<>>)

Call64_set_position ==
    /\ Is64
    /\ \E position \in Positions :
          Applied64(Krull64_set_position(krull, position), "set_position", position, <<>>)

Call64_reset ==
    /\ Is64
    /\ Applied64(Krull64_reset(krull), "reset", NoArg, <<>>)

Call64_set_stream ==
    /\ Is64
    /\ \E stream \in Streams64 :
          Applied64(Krull64_set_stream(krull, stream), "set_stream", stream, <<>>)

Call65_next_u32 ==
    /\ Is65
    /\ \E r \in {Krull65_next_u32(krull)} : Applied65(r.self, "next_u32", NoArg, r.ret)

Call65_next_u64 ==
    /\ Is65
    /\ \E r \in {Krull65_next_u64(krull)} : Applied65(r.self, "next_u64", NoArg, r.ret)

Call65_fill_bytes ==
    /\ Is65
    /\ \E len \in Lengths :
          \E r \in {Krull65_fill_bytes(krull, [i \in 1..len |-> 0])} :
              Applied65(r.self, "fill_bytes", len, r.dest)

Call65_jump ==
    /\ Is65
    /\ \E steps \in Jumps : Applied65(Krull65_jump(krull, steps), "jump", steps, <<>>)

Call65_set_position ==
    /\ Is65
    /\ \E position \in Positions :
          Applied65(Krull65_set_position(krull, position), "set_position", position, <<>>)

Call65_reset ==
    /\ Is65
    /\ Applied65(Krull65_reset(krull), "reset", NoArg, <<>>)

Call65_set_stream ==
    /\ Is65
    /\ \E stream \in Streams128 :
          Applied65(Krull65_set_stream(krull, stream), "set_stream", stream, <<>>)

Next ==
    \/ Call64_next_u32
    \/ Call64_next_u64
    \/ Call64_step_128
    \/ Call64_fill_bytes
    \/ Call64_jump
    \/ Call64_set_position
    \/ Call64_reset
    \/ Call64_set_stream
    \/ Call65_next_u32
    \/ Call65_next_u64
    \/ Call65_fill_bytes
    \/ Call65_jump
    \/ Call65_set_position
    \/ Call65_reset
    \/ Call65_set_stream

Spec == Init /\ [][Next]_vars

(***************************************************************************)
(* A generator is constructed, possibly sought to a position, and next_u64 *)
(* is called SeqLen times in a row, as the loops of tests::run_tests of    *)
(* krull64.rs and krull65.rs do; `out` collects the outputs in order,      *)
(* `run` keeps the position the calls started from and their number, and   *)
(* `call` keeps the constructor used.                                      *)
(***************************************************************************)
\* Number of consecutive next_u64 calls.
SeqLen == 16

\* let krull64_expected: [u64; 16]
krull64_expected ==
    <<
      <<210, 212, 94, 223, 193, 182, 193, 87>>,   \* 0x57c1b6c1df5ed4d2
      <<18, 244, 140, 57, 131, 186, 253, 30>>,   \* 0x1efdba83398cf412
      <<206, 201, 106, 160, 253, 141, 45, 160>>,   \* 0xa02d8dfda06ac9ce
      <<65, 24, 232, 229, 43, 243, 227, 246>>,   \* 0xf6e3f32be5e81841
      <<13, 126, 89, 62, 8, 144, 166, 194>>,   \* 0xc2a690083e597e0d
      <<170, 21, 108, 250, 211, 46, 27, 59>>,   \* 0x3b1b2ed3fa6c15aa
      <<178, 121, 164, 64, 19, 105, 28, 36>>,   \* 0x241c691340a479b2
      <<193, 103, 187, 121, 141, 76, 194, 136>>,   \* 0x88c24c8d79bb67c1
      <<220, 97, 43, 252, 196, 19, 242, 9>>,   \* 0x09f213c4fc2b61dc
      <<81, 201, 19, 199, 149, 173, 182, 164>>,   \* 0xa4b6ad95c713c951
      <<247, 237, 65, 51, 174, 4, 57, 164>>,   \* 0xa43904ae3341edf7
      <<250, 248, 213, 95, 77, 202, 45, 238>>,   \* 0xee2dca4d5fd5f8fa
      <<176, 173, 74, 170, 190, 221, 189, 39>>,   \* 0x27bdddbeaa4aadb0
      <<178, 52, 246, 219, 104, 142, 199, 152>>,   \* 0x98c78e68dbf634b2
      <<165, 213, 160, 23, 112, 197, 237, 240>>,   \* 0xf0edc57017a0d5a5
      <<35, 202, 30, 229, 93, 234, 71, 134>>    \* 0x8647ea5de51eca23
    >>

ZeroBytes16 == [i \in 0..15 |-> 0]

SeqConstructors ==
    {[name |-> "new", arg |-> NoArg, k |-> Krull64_new],
     [name |-> "from_32", arg |-> <<0, 0, 0, 0>>, k |-> Krull64_from_32(<<0, 0, 0, 0>>)],
     [name |-> "from_64", arg |-> Zero64, k |-> Krull64_from_64(Zero64)],
     [name |-> "from_128", arg |-> Zero128, k |-> Krull64_from_128(Zero128)],
     [name |-> "from_seed", arg |-> ZeroBytes16, k |-> Krull64_from_seed(ZeroBytes16)]}
    \cup {[name |-> "from_64", arg |-> seed, k |-> Krull64_from_64(seed)] : seed \in Seeds64}
    \cup {[name |-> "from_128", arg |-> seed, k |-> Krull64_from_128(seed)] : seed \in Seeds128}
    \cup {[name |-> "new", arg |-> NoArg, k |-> Krull65_new]}
    \cup {[name |-> "from_128", arg |-> seed, k |-> Krull65_from_128(seed)] : seed \in Seeds128}
    \cup {[name |-> "from_192", arg |-> seed, k |-> Krull65_from_192(seed[1], seed[2])] :
             seed \in Seeds192}

SeqInit ==
    \E c \in SeqConstructors :
        /\ krull = c.k
        /\ here = (IF c.k.ty = "Krull64" THEN Coordinates64(c.k) ELSE Coordinates65(c.k))
        /\ pre = c.k
        /\ before = here
        /\ op = [name |-> c.name, arg |-> c.arg]
        /\ out = <<>>
        /\ ops = 0
        /\ run = [p0 |-> here.position, k |-> 0]
        /\ call = [fn |-> "sequence", name |-> c.name, arg |-> c.arg]

\* next_u64 returned `ret` and left the generator `k` with `coordinates`.
SeqApplied(k, coordinates, ret) ==
    /\ krull' = k
    /\ here' = coordinates
    /\ out' = Append(out, ret)
    /\ pre' = krull
    /\ before' = here
    /\ op' = [name |-> "next_u64", arg |-> NoArg]
    /\ ops' = ops + 1
    /\ run' = [run EXCEPT !.k = run.k + 1]
    /\ UNCHANGED call

Seq64_next_u64 ==
    /\ Len(out) < SeqLen
    /\ krull.ty = "Krull64"
    /\ \E r \in {Krull64_next_u64(krull)} : SeqApplied(r.self, Coordinates64(r.self), r.ret)

Seq65_next_u64 ==
    /\ Len(out) < SeqLen
    /\ krull.ty = "Krull65"
    /\ \E r \in {Krull65_next_u64(krull)} : SeqApplied(r.self, Coordinates65(r.self), r.ret)

\* krull1.set_position(pos1) before the calls of next_u64, as tests::run_tests
\* does; the run of calls then starts at that position.
Seq_set_position ==
    /\ Len(out) = 0
    /\ op.name # "set_position"
    /\ \E position \in Positions :
          \E k \in {IF krull.ty = "Krull64" THEN Krull64_set_position(krull, position)
                                           ELSE Krull65_set_position(krull, position)} :
              /\ krull' = k
              /\ here' = (IF k.ty = "Krull64" THEN Coordinates64(k) ELSE Coordinates65(k))
              /\ pre' = krull
              /\ before' = here
              /\ op' = [name |-> "set_position", arg |-> position]
              /\ ops' = ops + 1
              /\ run' = [p0 |-> here'.position, k |-> 0]
              /\ UNCHANGED <<out, call>>

SeqNext ==
    \/ Seq64_next_u64
    \/ Seq65_next_u64
    \/ Seq_set_position

SeqSpec == SeqInit /\ [][SeqNext]_vars

(***************************************************************************)
(* Two generators seeded side by side: Init draws a pair of seeds, an      *)
(* action builds Krull64::from_128 or Krull65::from_192 of both and reads  *)
(* stream() and position() of each.                                        *)
(***************************************************************************)
\* 128-bit seeds; among them seeds that agree in hi ^ lo (the stream) and
\* seeds that agree in the low half (the position).
PairSeeds128 ==
    {Zero128, Max128, Rnd(3), Xor128(Rnd(3), One64 \o One64), Xor128(Rnd(3), Zero64 \o One64),
     Shl128(Rnd(4), 64)}

\* 192-bit seeds (seed0, seed1); among them seeds that agree in
\* seed0 ^ seed1 (the stream) and seeds that agree in seed1 (the position).
PairSeeds192 ==
    {<<Zero128, Zero64>>, <<as_u128(Max64), Max64>>, <<Rnd(3), as_u64(Rnd(4))>>,
     <<Xor128(Rnd(3), as_u128(Max64)), Not64(as_u64(Rnd(4)))>>, <<Rnd(5), as_u64(Rnd(4))>>}

SeedInit ==
    /\ krull = Krull64_new
    /\ here = [stream |-> Zero64, position |-> Zero128]
    /\ pre = krull
    /\ before = here
    /\ op = [name |-> "none", arg |-> NoArg]
    /\ out = <<>>
    /\ ops = 0
    /\ run = [p0 |-> Zero128, k |-> 0]
    /\ \/ \E s \in PairSeeds128, t \in PairSeeds128 :
             call = [fn |-> "seeds", ty |-> "Krull64", s |-> s, t |-> t, res |-> <<>>]
       \/ \E s \in PairSeeds192, t \in PairSeeds192 :
             call = [fn |-> "seeds", ty |-> "Krull65", s |-> s, t |-> t, res |-> <<>>]

Seed_from_128 ==
    /\ call.fn = "seeds"
    /\ call.ty = "Krull64"
    /\ call' = [call EXCEPT !.fn = "from_128",
                            !.res = <<Coordinates64(Krull64_from_128(call.s)),
                                      Coordinates64(Krull64_from_128(call.t))>>]
    /\ UNCHANGED <<krull, here, pre, before, op, out, ops, run>>

Seed_from_192 ==
    /\ call.fn = "seeds"
    /\ call.ty = "Krull65"
    /\ call' = [call EXCEPT !.fn = "from_192",
                            !.res = <<Coordinates65(Krull65_from_192(call.s[1], call.s[2])),
                                      Coordinates65(Krull65_from_192(call.t[1], call.t[2]))>>]
    /\ UNCHANGED <<krull, here, pre, before, op, out, ops, run>>

SeedNext ==
    \/ Seed_from_128
    \/ Seed_from_192

SeedSpec == SeedInit /\ [][SeedNext]_vars

(***************************************************************************)
(* The LCG kernel called directly, as src/src/lcg.rs tests::run_tests does:*)
(* Init draws (m, p, origin, x), an action applies one kernel function.    *)
(***************************************************************************)
Multipliers == {LCG_M128_1, LCG_M128_2, LCG_M128_3, LCG_M128_4,
                LCG_M65_1, LCG_M65_2, LCG_M65_3, LCG_M65_4}
Increments == {One128, Or128(Rnd(4), One128)}
Origins == {Zero128, Rnd(2)}
Arguments == {Zero128, One128, Max128, Rnd(3),
              <<37, 0, 0, 0, 0, 0, 0, 0, 0, 0, 0, 0, 0, 0, 0, 0>>}

LcgInit ==
    /\ krull = Krull64_new
    /\ here = [stream |-> Zero64, position |-> Zero128]
    /\ pre = krull
    /\ before = here
    /\ op = [name |-> "none", arg |-> NoArg]
    /\ out = <<>>
    /\ ops = 0
    /\ run = [p0 |-> Zero128, k |-> 0]
    /\ \E m \in Multipliers, p \in Increments, origin \in Origins, x \in Arguments :
          call = [fn |-> "none", m |-> m, p |-> p, origin |-> origin, x |-> x, res |-> <<>>]

LcgCall_get_state ==
    /\ call.fn = "none"
    /\ call' = [call EXCEPT !.fn = "get_state",
                            !.res = get_state(call.m, call.p, call.origin, call.x)]
    /\ UNCHANGED <<krull, here, pre, before, op, out, ops, run>>

LcgCall_get_iterations ==
    /\ call.fn = "none"
    /\ call' = [call EXCEPT !.fn = "get_iterations",
                            !.res = get_iterations(call.m, call.p, call.origin, call.x)]
    /\ UNCHANGED <<krull, here, pre, before, op, out, ops, run>>

LcgCall_get_jump ==
    /\ call.fn = "none"
    /\ call' = [call EXCEPT !.fn = "get_jump", !.res = get_jump(call.m, call.p, call.x)]
    /\ UNCHANGED <<krull, here, pre, before, op, out, ops, run>>

LcgNext ==
    \/ LcgCall_get_state
    \/ LcgCall_get_iterations
    \/ LcgCall_get_jump

LcgSpec == LcgInit /\ [][LcgNext]_vars

(***************************************************************************)
(* The loops of the LCG kernel run one iteration at a time: Init enters    *)
(* one of get_iterations, get_state and get_jump with its arguments, each  *)
(* action is one pass through the loop's body or the exit of the loop.     *)
(* call.s holds the loop's local variables, call.s.iters the number of     *)
(* passes made.                                                            *)
(***************************************************************************)
LoopMultipliers == {LCG_M65_1, LCG_M65_4, LCG_M128_1}
LoopArguments == {Zero128, Max128, Rnd(3), Shl128(One128, 127)}

LoopInit ==
    /\ krull = Krull64_new
    /\ here = [stream |-> Zero64, position |-> Zero128]
    /\ pre = krull
    /\ before = here
    /\ op = [name |-> "none", arg |-> NoArg]
    /\ out = <<>>
    /\ ops = 0
    /\ run = [p0 |-> Zero128, k |-> 0]
    /\ \E m \in LoopMultipliers, p \in Increments, origin \in Origins, x \in LoopArguments :
          \/ call = [fn |-> "get_iterations", pc |-> "loop", x |-> x,
                     s |-> [jump_m |-> m, jump_p |-> p, ordinal |-> Zero128, bit |-> One128,
                            address |-> origin, iters |-> 0]]
          \/ call = [fn |-> "get_state", pc |-> "loop", x |-> x,
                     s |-> [jump_m |-> m, jump_p |-> p, state |-> origin, ordinal |-> x,
                            iters |-> 0]]
          \/ call = [fn |-> "get_jump", pc |-> "loop", x |-> x,
                     s |-> [unit_m |-> m, unit_p |-> p, jump_m |-> One128, jump_p |-> Zero128,
                            delta |-> x, iters |-> 0]]

\* while address != state { ... }
Loop_get_iterations ==
    /\ call.fn = "get_iterations" /\ call.pc = "loop"
    /\ call.s.address # call.x
    /\ call' = [call EXCEPT !.s = get_iterations_body(call.s, call.x)]
    /\ UNCHANGED <<krull, here, pre, before, op, out, ops, run>>

\* while ordinal > 0 { ... }
Loop_get_state ==
    /\ call.fn = "get_state" /\ call.pc = "loop"
    /\ call.s.ordinal # Zero128
    /\ call' = [call EXCEPT !.s = get_state_body(call.s)]
    /\ UNCHANGED <<krull, here, pre, before, op, out, ops, run>>

\* while delta > 0 { ... }
Loop_get_jump ==
    /\ call.fn = "get_jump" /\ call.pc = "loop"
    /\ call.s.delta # Zero128
    /\ call' = [call EXCEPT !.s = get_jump_body(call.s)]
    /\ UNCHANGED <<krull, here, pre, before, op, out, ops, run>>

\* The loop condition is false: the function returns.
Loop_exit ==
    /\ call.pc = "loop"
    /\ \/ call.fn = "get_iterations" /\ call.s.address = call.x
       \/ call.fn = "get_state" /\ call.s.ordinal = Zero128
       \/ call.fn = "get_jump" /\ call.s.delta = Zero128
    /\ call' = [call EXCEPT !.pc = "done"]
    /\ UNCHANGED <<krull, here, pre, before, op, out, ops, run>>

LoopNext ==
    \/ Loop_get_iterations
    \/ Loop_get_state
    \/ Loop_get_jump
    \/ Loop_exit

LoopSpec == LoopInit /\ [][LoopNext]_vars

(***************************************************************************)
(* A Krull64 moved off its constructor state and then reset, as the tests  *)
(* of krull64.rs do: next_u64, jump and set_position move it, reset and    *)
(* set_stream end the run.                                                 *)
(***************************************************************************)
\* Operations before the reset.
ResetMoves == 1

ResetInit == Init /\ krull.ty = "Krull64"

IsMoving == ops < ResetMoves /\ op.name \notin {"reset", "set_stream"}
IsResettable == ops <= ResetMoves /\ op.name \notin {"reset", "set_stream"}

Reset_next_u64 ==
    /\ IsMoving
    /\ \E r \in {Krull64_next_u64(krull)} : Applied64(r.self, "next_u64", NoArg, r.ret)

Reset_jump ==
    /\ IsMoving
    /\ \E steps \in Jumps : Applied64(Krull64_jump(krull, steps), "jump", steps, <<>>)

Reset_set_position ==
    /\ IsMoving
    /\ \E position \in Positions :
          Applied64(Krull64_set_position(krull, position), "set_position", position, <<>>)

Reset_reset ==
    /\ IsResettable
    /\ Applied64(Krull64_reset(krull), "reset", NoArg, <<>>)

Reset_set_stream ==
    /\ IsResettable
    /\ \E stream \in Streams64 :
          Applied64(Krull64_set_stream(krull, stream), "set_stream", stream, <<>>)

ResetNext ==
    \/ Reset_next_u64
    \/ Reset_jump
    \/ Reset_set_position
    \/ Reset_reset
    \/ Reset_set_stream

ResetSpec == ResetInit /\ [][ResetNext]_vars

(***************************************************************************)
(* Helpers of the properties, after the tests of the two generators.       *)
(***************************************************************************)
\* A small count n as a u128, as in `pos1 + n`.
count_as_u128(n) ==
    <<n % 256, (n \div 256) % 256, 0, 0, 0, 0, 0, 0, 0, 0, 0, 0, 0, 0, 0, 0>>

\* -steps for a signed jump distance.
neg_i128(steps) == [neg |-> ~steps.neg /\ steps.mag # Zero128, mag |-> steps.mag]

\* p + d (mod 2^128) for a signed d.
add_signed_128(p, d) ==
    IF d.neg THEN wrapping_sub_128(p, d.mag) ELSE wrapping_add_128(p, d.mag)

MinusOne == [neg |-> TRUE, mag |-> One128]

\* n calls of next_u64 in a row: [self |-> the generator afterwards,
\* ret |-> the sequence of the n outputs].
RECURSIVE Krull64_next_u64s(_, _)
Krull64_next_u64s(self, n) ==
    IF n = 0 THEN [self |-> self, ret |-> <<>>]
    ELSE LET r == Krull64_next_u64s(self, n - 1)
             q == Krull64_next_u64(r.self)
         IN  [self |-> q.self, ret |-> Append(r.ret, q.ret)]

RECURSIVE Krull65_next_u64s(_, _)
Krull65_next_u64s(self, n) ==
    IF n = 0 THEN [self |-> self, ret |-> <<>>]
    ELSE LET r == Krull65_next_u64s(self, n - 1)
             q == Krull65_next_u64(r.self)
         IN  [self |-> q.self, ret |-> Append(r.ret, q.ret)]

\* The first len bytes of the little-endian encodings of the words, in order.
le_bytes_prefix(words, len) ==
    [t \in 1..len |-> u64_to_le_bytes(words[((t - 1) \div 8) + 1])[(t - 1) % 8]]

\* ceil(len / 8)
words_for(len) == (len + 7) \div 8

\* s -> s * m + p applied n times, one at a time.
RECURSIVE lcg_iterate(_, _, _, _)
lcg_iterate(m, p, s, n) ==
    IF n = 0 THEN s
    ELSE lcg_iterate(m, p, wrapping_add_128(wrapping_mul_128(s, m), p), n - 1)

\* A seed of n bytes read little-endian: byte 0 is the least significant.
le_value(bytes, from, n) == [i \in 1..n |-> bytes[from + i - 1]]

(***************************************************************************)
(* C1.  LCG kernel round trip: for a published multiplier m, an odd        *)
(* increment p, any origin, any count n and any state s,                   *)
(* get_iterations(m, p, origin, get_state(m, p, origin, n)) = n and        *)
(* get_state(m, p, origin, get_iterations(m, p, origin, s)) = s.           *)
(***************************************************************************)
C1_KernelRoundTrip ==
    /\ call.fn = "get_state" =>
          get_iterations(call.m, call.p, call.origin, call.res) = call.x
    /\ call.fn = "get_iterations" =>
          get_state(call.m, call.p, call.origin, call.res) = call.x

\* A distance of at least 2^127 was recovered from a nonzero origin: every
\* bit of the kernel loops was used.
C1_Witness ==
    /\ call.fn = "get_iterations"
    /\ call.origin # Zero128
    /\ call.p # One128
    /\ call.res[16] >= 128

(***************************************************************************)
(* C2.  Position/advance duality, Krull64 and Krull65: k calls of next_u64 *)
(* in a row (k = 0 .. SeqLen) from a state with position() = p0, reached   *)
(* by a constructor or by set_position, leave position() = (p0 + k) mod    *)
(* 2^128.                                                                  *)
(***************************************************************************)
C2_PositionAdvance ==
    here.position = wrapping_add_128(run.p0, count_as_u128(run.k))

\* A Krull65 on a stream nonzero in both halves ran SeqLen calls of next_u64
\* from position 2^128 - 1: the position wrapped to SeqLen - 1, and LCG A was
\* stepped from states with a nonzero low word.
C2_Witness ==
    /\ call.fn = "sequence"
    /\ op.name = "next_u64"
    /\ krull.ty = "Krull65"
    /\ run.k = SeqLen
    /\ Len(out) = SeqLen
    /\ run.p0 = Max128
    /\ here.position = count_as_u128(SeqLen - 1)
    /\ as_u64(here.stream) # Zero64
    /\ krull.c1 # Zero64
    /\ pre.a0 # Zero64

(***************************************************************************)
(* C3.  jump is additive on position, Krull64 and Krull65: jump(d) from    *)
(* position p gives position (p + d) mod 2^128 for d positive, zero or     *)
(* negative; jump(d) then jump(-d) restores the exact state; jump(0)       *)
(* changes nothing; next_u64 then jump(-1) returns to the position before  *)
(* the output.                                                             *)
(***************************************************************************)
C3_JumpAdditive ==
    /\ op.name = "jump" =>
          /\ here.position = add_signed_128(before.position, op.arg)
          /\ krull.ty = "Krull64" => Krull64_jump(krull, neg_i128(op.arg)) = pre
          /\ krull.ty = "Krull65" => Krull65_jump(krull, neg_i128(op.arg)) = pre
          /\ op.arg.mag = Zero128 => krull = pre
    /\ (op.name = "next_u64" /\ krull.ty = "Krull64") =>
          Krull64_position(Krull64_jump(krull, MinusOne)) = before.position
    /\ (op.name = "next_u64" /\ krull.ty = "Krull65") =>
          Krull65_position(Krull65_jump(krull, MinusOne)) = before.position

\* A backward jump that wrapped below position 0.
C3_Witness ==
    /\ op.name = "jump"
    /\ op.arg.neg
    /\ before.position = Zero128
    /\ here.position = Max128

(***************************************************************************)
(* C4.  Stream selection: set_stream(s) from any state, from_32 and        *)
(* from_64 (seed zero-extended) and Krull65::from_128(s) give              *)
(* stream() = s and position() = 0; new() gives stream() = 0 and           *)
(* position() = 0.                                                         *)
(***************************************************************************)
C4_StreamSelection ==
    /\ op.name = "set_stream" => (here.stream = op.arg /\ here.position = Zero128)
    /\ op.name = "new" =>
          /\ here.position = Zero128
          /\ here.stream = (IF krull.ty = "Krull64" THEN Zero64 ELSE Zero128)
    /\ op.name = "from_32" =>
          /\ here.position = Zero128
          /\ here.stream = op.arg \o (IF krull.ty = "Krull64" THEN <<0, 0, 0, 0>>
                                      ELSE <<0, 0, 0, 0>> \o Zero64)
    /\ op.name = "from_64" =>
          /\ here.position = Zero128
          /\ here.stream = (IF krull.ty = "Krull64" THEN op.arg ELSE op.arg \o Zero64)
    /\ (op.name = "from_128" /\ krull.ty = "Krull65") =>
          (here.stream = op.arg /\ here.position = Zero128)

\* set_stream on a Krull65 that was away from position 0 on another stream.
C4_Witness ==
    /\ op.name = "set_stream"
    /\ krull.ty = "Krull65"
    /\ before.position # Zero128
    /\ before.stream # here.stream
    /\ here.stream[1] # 0 /\ here.stream[16] # 0

(***************************************************************************)
(* C5.  Seek, Krull64 and Krull65: set_position(p) from any state, then    *)
(* position() returns p.                                                   *)
(***************************************************************************)
C5_Seek ==
    op.name = "set_position" => here.position = op.arg

\* A Krull65 sought backwards from a position other than 0.
C5_Witness ==
    /\ op.name = "set_position"
    /\ krull.ty = "Krull65"
    /\ before.position[16] >= 128
    /\ here.position[16] < 128
    /\ here.position # Zero128

(***************************************************************************)
(* C6.  The stream is preserved by every positional operation, Krull64 and *)
(* Krull65: next_u32, next_u64, fill_bytes, jump(d) and set_position(p)    *)
(* leave stream() as it was.                                               *)
(***************************************************************************)
C6_StreamPreserved ==
    op.name \in {"next_u32", "next_u64", "fill_bytes", "jump", "set_position"} =>
        here.stream = before.stream

\* A Krull65 with a stream that is nonzero in both halves jumped backwards.
C6_Witness ==
    /\ op.name = "jump"
    /\ op.arg.neg
    /\ krull.ty = "Krull65"
    /\ here.stream[1] # 0 /\ here.stream[16] # 0
    /\ here.position # before.position

(***************************************************************************)
(* C7.  Krull65 reset() is equivalent to set_position(0): afterwards       *)
(* position() = 0, stream() is what it was, and the state is the one       *)
(* set_position(0) produces.                                               *)
(***************************************************************************)
C7_ResetIsSetPositionZero ==
    (op.name = "reset" /\ krull.ty = "Krull65") =>
        /\ here.position = Zero128
        /\ here.stream = before.stream
        /\ krull = Krull65_set_position(pre, Zero128)

(***************************************************************************)
(* C8.  fill_bytes / next_u64 equivalence, Krull64 and Krull65: for a      *)
(* buffer of L bytes fill_bytes writes the first L bytes of the            *)
(* little-endian encodings of the next ceil(L/8) outputs of next_u64 and   *)
(* leaves the generator where ceil(L/8) calls of next_u64 leave it.        *)
(***************************************************************************)
C8_FillBytesIsNextU64 ==
    /\ (op.name = "fill_bytes" /\ krull.ty = "Krull64") =>
          LET r == Krull64_next_u64s(pre, words_for(op.arg))
          IN  /\ Len(out) = op.arg
              /\ \A t \in 1..op.arg : out[t] = le_bytes_prefix(r.ret, op.arg)[t]
              /\ krull = r.self
    /\ (op.name = "fill_bytes" /\ krull.ty = "Krull65") =>
          LET r == Krull65_next_u64s(pre, words_for(op.arg))
          IN  /\ Len(out) = op.arg
              /\ \A t \in 1..op.arg : out[t] = le_bytes_prefix(r.ret, op.arg)[t]
              /\ krull = r.self

\* A buffer whose last word is truncated, filled with bytes that are not all equal.
C8_Witness ==
    /\ op.name = "fill_bytes"
    /\ op.arg % 8 # 0
    /\ Len(out) = op.arg
    /\ out[op.arg] # out[op.arg - 1]
    /\ krull # pre

(***************************************************************************)
(* C9.  Krull64 from a 16-byte seed (from_seed, from_128), the seed read   *)
(* little-endian as s: stream() = s.hi XOR s.lo and position() = s >> 64.  *)
(***************************************************************************)
C9_Seed128_AsStated ==
    /\ (op.name = "from_128" /\ krull.ty = "Krull64") =>
          /\ here.stream = Xor64(SubSeq(op.arg, 9, 16), SubSeq(op.arg, 1, 8))
          /\ here.position = SubSeq(op.arg, 9, 16) \o Zero64
    /\ (op.name = "from_seed" /\ krull.ty = "Krull64") =>
          LET s == le_value(op.arg, 0, 16)
          IN  /\ here.stream = Xor64(SubSeq(s, 9, 16), SubSeq(s, 1, 8))
              /\ here.position = SubSeq(s, 9, 16) \o Zero64

(***************************************************************************)
(* C9, as the code has it.  Krull64 from a 16-byte seed, the seed read     *)
(* little-endian as s: stream() = s.hi XOR s.lo and                        *)
(* position() = (s << 64) mod 2^128, the low half of s in the high half    *)
(* of the position.                                                        *)
(***************************************************************************)
C9_Seed128 ==
    /\ (op.name = "from_128" /\ krull.ty = "Krull64") =>
          /\ here.stream = Xor64(SubSeq(op.arg, 9, 16), SubSeq(op.arg, 1, 8))
          /\ here.position = Zero64 \o SubSeq(op.arg, 1, 8)
    /\ (op.name = "from_seed" /\ krull.ty = "Krull64") =>
          LET s == le_value(op.arg, 0, 16)
          IN  /\ here.stream = Xor64(SubSeq(s, 9, 16), SubSeq(s, 1, 8))
              /\ here.position = Zero64 \o SubSeq(s, 1, 8)

\* A seed whose two halves differ, so that s << 64 and s >> 64 differ.
C9_Witness ==
    /\ op.name \in {"from_128", "from_seed"}
    /\ krull.ty = "Krull64"
    /\ here.position # Zero128
    /\ here.stream # Zero64
    /\ ops = 0

(***************************************************************************)
(* C10.  Krull65 from a 24-byte seed (from_seed, from_192), the low 16     *)
(* bytes read little-endian as s0 and the next 8 bytes as s1:              *)
(* stream() = s0 XOR s1 (s1 zero-extended) and position() = s1 << 64.      *)
(***************************************************************************)
C10_Seed192 ==
    /\ op.name = "from_192" =>
          /\ here.stream = Xor64(SubSeq(op.arg[1], 1, 8), op.arg[2]) \o SubSeq(op.arg[1], 9, 16)
          /\ here.position = Zero64 \o op.arg[2]
    /\ (op.name = "from_seed" /\ krull.ty = "Krull65") =>
          LET s0 == le_value(op.arg, 0, 16)
              s1 == le_value(op.arg, 16, 8)
          IN  /\ here.stream = Xor64(SubSeq(s0, 1, 8), s1) \o SubSeq(s0, 9, 16)
              /\ here.position = Zero64 \o s1

C10_Witness ==
    /\ op.name \in {"from_192", "from_seed"}
    /\ krull.ty = "Krull65"
    /\ here.position # Zero128
    /\ here.stream[1] # 0 /\ here.stream[16] # 0
    /\ ops = 0

(***************************************************************************)
(* C11.  Determinism in (stream, position) coordinates.  Every generator   *)
(* reached through the public constructors and operations is structurally  *)
(* equal to the generator that new(), set_stream(stream()) and             *)
(* set_position(position()) build from the coordinates it reports.  Hence  *)
(* any two generators of one type that report the same stream() and        *)
(* position() have all stored fields equal, and so return the same outputs *)
(* and reach the same states under the same operations.  A clone equals    *)
(* its original.                                                           *)
(***************************************************************************)
C11_Determinism ==
    /\ krull.ty = "Krull64" =>
          /\ Krull64_eq(krull, Krull64_set_position(
                                   Krull64_set_stream(Krull64_new, here.stream),
                                   here.position))
          /\ Krull64_eq(Krull64_clone(krull), krull)
          /\ Krull64_next_u64(Krull64_clone(krull)) = Krull64_next_u64(krull)
    /\ krull.ty = "Krull65" =>
          /\ Krull65_eq(krull, Krull65_set_position(
                                   Krull65_set_stream(Krull65_new, here.stream),
                                   here.position))
          /\ Krull65_eq(Krull65_clone(krull), krull)
          /\ Krull65_next_u64(Krull65_clone(krull)) = Krull65_next_u64(krull)

\* A Krull65 built by from_192 and then moved by an output: it reached its
\* coordinates by another path than set_stream and set_position, on a stream
\* that is nonzero in both halves and at a position above 2^64.
C11_Witness ==
    /\ krull.ty = "Krull65"
    /\ pre = Krull65_from_192(Rnd(3), Max64)
    /\ op.name = "next_u64"
    /\ here.stream[1] # 0 /\ here.stream[16] # 0
    /\ here.position[9] # 0

(***************************************************************************)
(* C12.  Reference sequence: a Krull64 constructed at stream 0, position 0 *)
(* (new, from_32(0), from_64(0), from_128(0), from_seed of 16 zero bytes)  *)
(* returns from its first 16 next_u64 calls the 16 values of               *)
(* krull64_expected, 0x57c1b6c1df5ed4d2 first and 0x8647ea5de51eca23 last, *)
(* in that order.                                                          *)
(***************************************************************************)
C12_ReferenceSequence ==
    (call.fn = "sequence" /\ krull.ty = "Krull64" /\ here.stream = Zero64 /\ run.p0 = Zero128) =>
        \A i \in 1..Len(out) : i <= 16 => out[i] = krull64_expected[i]

\* All 16 outputs were drawn from the generator built by from_seed from 16
\* zero bytes.
C12_Witness ==
    /\ call.fn = "sequence"
    /\ call.name = "from_seed"
    /\ call.arg = ZeroBytes16
    /\ krull.ty = "Krull64"
    /\ here.stream = Zero64 /\ run.p0 = Zero128
    /\ Len(out) = 16
    /\ out[16] = krull64_expected[16]

(***************************************************************************)
(* C13.  LCG jump composition: for a published multiplier m, an odd        *)
(* increment p, any state s and any n, with (m_n, p_n) = get_jump(m, p, n),*)
(* s * m_n + p_n (mod 2^128) = get_state(m, p, s, n); and                  *)
(* get_jump(m, p, 0) = (1, 0).                                             *)
(***************************************************************************)
C13_JumpComposition ==
    call.fn = "get_jump" =>
        /\ wrapping_add_128(wrapping_mul_128(call.origin, call.res[1]), call.res[2])
              = get_state(call.m, call.p, call.origin, call.x)
        /\ call.x = Zero128 => call.res = <<One128, Zero128>>

\* A jump of 2^128 - 1 steps was composed for a 128-bit increment and
\* applied to a nonzero state.
C13_Witness ==
    /\ call.fn = "get_jump"
    /\ call.x = Max128
    /\ call.p # One128
    /\ call.origin # Zero128
    /\ call.res[1] # One128

(***************************************************************************)
(* C15.  No two seeds collide: Krull64::from_128 takes distinct 128-bit    *)
(* seeds, and Krull65::from_192 distinct 192-bit seeds (seed0, seed1), to  *)
(* distinct (stream, position) pairs; two distinct seeds that give the     *)
(* same stream give positions that differ by a nonzero multiple of 2^64.   *)
(***************************************************************************)
C15_SeedsDoNotCollide ==
    (call.fn \in {"from_128", "from_192"} /\ call.s # call.t) =>
        /\ call.res[1] # call.res[2]
        /\ call.res[1].stream = call.res[2].stream =>
              /\ call.res[1].position # call.res[2].position
              /\ as_u64(wrapping_sub_128(call.res[1].position, call.res[2].position)) = Zero64

\* Two distinct 192-bit seeds that select the same Krull65 stream, nonzero
\* in both halves.
C15_Witness ==
    /\ call.fn = "from_192"
    /\ call.s # call.t
    /\ call.res[1].stream = call.res[2].stream
    /\ call.res[1].stream[1] # 0 /\ call.res[1].stream[16] # 0
    /\ call.res[1].position # call.res[2].position

(***************************************************************************)
(* C16.  The hot-path advance is exactly one LCG iteration.  Every step()  *)
(* of a Krull64 (each next_u64 of a run) leaves the 128-bit lcg            *)
(* lcg * LCG_M65_1 + ((stream << 1) | 1) mod 2^128, the state and output   *)
(* that step_slow() gives; every step() of a Krull65 leaves                *)
(* a' = a * LCG_M65_1 + ((c1 << 1) ^ LCG_M128_1) and                       *)
(* b' = b * LCG_M65_4 + ((c1 << 1) ^ 1) mod 2^128, carries included.       *)
(***************************************************************************)
C16_StepIsOneIteration ==
    /\ (call.fn = "sequence" /\ krull.ty = "Krull64" /\ op.name = "next_u64") =>
          /\ Krull64_lcg_128(krull)
                = wrapping_add_128(wrapping_mul_128(Krull64_lcg_128(pre), LCG_M65_1),
                                   Or128(Shl128(as_u128(pre.stream), 1), One128))
          /\ krull = Krull64_step_slow(pre).self
          /\ out[Len(out)] = Krull64_step_slow(pre).ret
          /\ krull.stream = pre.stream
    /\ (call.fn = "sequence" /\ krull.ty = "Krull65" /\ op.name = "next_u64") =>
          /\ Krull65_a_128(krull)
                = wrapping_add_128(wrapping_mul_128(Krull65_a_128(pre), LCG_M65_1),
                                   Xor128(Shl128(as_u128(pre.c1), 1), LCG_M128_1))
          /\ Krull65_b_128(krull)
                = wrapping_add_128(wrapping_mul_128(Krull65_b_128(pre), LCG_M65_4),
                                   Xor128(Shl128(as_u128(pre.c1), 1), One128))
          /\ krull.c1 = pre.c1

\* A Krull65 stepped from a state whose four words are all nonzero and whose
\* low-word products both carry into the high words.
C16_Witness ==
    /\ call.fn = "sequence"
    /\ krull.ty = "Krull65"
    /\ op.name = "next_u64"
    /\ Len(out) = 16
    /\ pre.a0 # Zero64 /\ pre.a1 # Zero64 /\ pre.b0 # Zero64 /\ pre.b1 # Zero64
    /\ pre.c1 # Zero64
    /\ Shr128(Krull65_step_a(pre), 64) # Zero128
    /\ Shr128(Krull65_step_b(pre), 64) # Zero128

(***************************************************************************)
(* C17.  get_state(m, p, origin, n) is the result of applying              *)
(* s -> s * m + p (mod 2^128) exactly n times to origin:                   *)
(* get_state(.., 0) = origin, get_state(.., 1) = origin * m + p, and for a *)
(* count n below 256 the n-fold iteration carried out one step at a time   *)
(* gives the same state.  Consequently, for h <= n (h = n & mask),         *)
(* get_iterations(m, p, get_state(m, p, origin, h),                        *)
(* get_state(m, p, origin, n)) = n - h, for a published multiplier m and   *)
(* an odd p.                                                               *)
(***************************************************************************)
C17_GetStateIterates ==
    call.fn = "get_state" =>
        /\ call.x = Zero128 => call.res = call.origin
        /\ call.x = One128 =>
              call.res = wrapping_add_128(wrapping_mul_128(call.origin, call.m), call.p)
        /\ Shr128(call.x, 8) = Zero128 =>
              call.res = lcg_iterate(call.m, call.p, call.origin, call.x[1])
        /\ get_iterations(call.m, call.p,
                          get_state(call.m, call.p, call.origin, And128(call.x, Rnd(4))),
                          call.res)
              = wrapping_sub_128(call.x, And128(call.x, Rnd(4)))

\* 37 iterations from a nonzero origin with a 128-bit increment: the loop of
\* get_state ran six times and applied three of the jumps.
C17_Witness ==
    /\ call.fn = "get_state"
    /\ call.x = <<37, 0, 0, 0, 0, 0, 0, 0, 0, 0, 0, 0, 0, 0, 0, 0>>
    /\ call.origin # Zero128
    /\ call.p # One128
    /\ call.res # call.origin

(***************************************************************************)
(* C18.  Bounded termination of the kernel: for a published multiplier m,  *)
(* an odd increment p, every origin and every state, the loop of           *)
(* get_iterations makes at most 128 passes, because after the k-th pass    *)
(* the low k bits of the running address equal the low k bits of the       *)
(* target state; the loops of get_state and get_jump make at most 128      *)
(* passes for every count n.                                               *)
(***************************************************************************)
C18_BoundedLoops ==
    call.fn \in {"get_iterations", "get_state", "get_jump"} /\ call.pc \in {"loop", "done"} =>
        /\ call.s.iters <= 128
        /\ call.fn = "get_iterations" =>
              And128(Xor128(call.s.address, call.x), wrapping_sub_128(call.s.bit, One128))
                  = Zero128

\* get_iterations returned after exactly 128 passes: the distance found is
\* at least 2^127.
C18_Witness ==
    /\ call.fn = "get_iterations"
    /\ call.pc = "done"
    /\ call.s.iters = 128
    /\ call.s.bit = Zero128
    /\ call.s.ordinal[16] >= 128

(***************************************************************************)
(* C19.  The generators only ever hand full-period parameters to the LCG   *)
(* kernel: in every generator state, before and after every operation,     *)
(* the multipliers (LCG_M65_1 for Krull64 and for LCG A of Krull65,        *)
(* LCG_M65_4 for LCG B) are congruent to 5 mod 8, also as the 64-bit       *)
(* multipliers of step(), and the increments ((stream << 1) | 1 for        *)
(* Krull64, (c1 << 1) ^ LCG_M128_1 and (c1 << 1) ^ 1 for Krull65) are odd. *)
(***************************************************************************)
C19_FullPeriodParameters ==
    \A k \in {krull, pre} :
        /\ k.ty = "Krull64" =>
              /\ Krull64_multiplier_128(k) = LCG_M65_1
              /\ Krull64_multiplier_128(k)[1] % 8 = 5
              /\ Krull64_multiplier(k)[1] % 8 = 5
              /\ Krull64_increment_128(k)[1] % 2 = 1
              /\ Shr128(Krull64_increment_128(k), 1) = as_u128(k.stream)
        /\ k.ty = "Krull65" =>
              /\ Krull65_multiplier_a_128(k) = LCG_M65_1
              /\ Krull65_multiplier_b_128(k) = LCG_M65_4
              /\ Krull65_multiplier_a_128(k)[1] % 8 = 5
              /\ Krull65_multiplier_b_128(k)[1] % 8 = 5
              /\ Krull65_multiplier_a(k)[1] % 8 = 5
              /\ Krull65_multiplier_b(k)[1] % 8 = 5
              /\ Krull65_increment_a_128(k)[1] % 2 = 1
              /\ Krull65_increment_b_128(k)[1] % 2 = 1

\* A Krull65 whose c1 has its top bit set jumped: c1 << 1 needs the 65th
\* bit of the increments, and their low bits are still set.
C19_Witness ==
    /\ op.name = "jump"
    /\ krull.ty = "Krull65"
    /\ krull.c1[8] >= 128
    /\ Krull65_increment_b_128(krull)[9] = 1
    /\ Krull65_increment_a_128(krull)[1] % 2 = 1
    /\ krull # pre

(***************************************************************************)
(* C20.  Krull65 phase invariant: in every state reached from a            *)
(* constructor by next_u32, next_u64, fill_bytes, jump, set_position,      *)
(* reset and set_stream, the phase difference (iterations of B from origin *)
(* 1) - (iterations of A from origin 0) mod 2^128 is below 2^64, so the    *)
(* truncation to 64 bits in stream() discards nothing: the low half of     *)
(* stream() is the whole phase and its high half is phase ^ c1, so that    *)
(* (stream(), position()) fixes c1 and the iteration counts of A and B.    *)
(***************************************************************************)
C20_PhaseInvariant ==
    krull.ty = "Krull65" =>
        /\ \A phase \in {wrapping_sub_128(Krull65_position_b(krull), here.position)} :
              /\ Shr128(phase, 64) = Zero128
              /\ as_u64(phase) = as_u64(here.stream)
        /\ krull.c1 = Xor64(as_u64(here.stream), as_u64(Shr128(here.stream, 64)))

\* A Krull65 with a nonzero phase was sought to position 2^128 - 1: B is
\* past the wrap of its period while A is not.
C20_Witness ==
    /\ krull.ty = "Krull65"
    /\ op.name = "set_position"
    /\ here.position = Max128
    /\ as_u64(here.stream) # Zero64
    /\ Krull65_position_b(krull)[16] < 128

(***************************************************************************)
(* C21.  Krull64 reset() is set_position(0): from every state reset()      *)
(* leaves lcg0 = ~stream and lcg1 = 0, the origin of the stream, so that   *)
(* position() is 0 and stream() is unchanged, and the generator is the one *)
(* set_position(0) gives; set_stream(s) leaves what storing s and then     *)
(* reset() leave: stream = s, lcg0 = ~s, lcg1 = 0, position() = 0.         *)
(***************************************************************************)
C21_ResetIsSetPositionZero ==
    /\ (op.name = "reset" /\ krull.ty = "Krull64") =>
          /\ krull.lcg0 = Not64(pre.stream)
          /\ krull.lcg1 = Zero64
          /\ krull.stream = pre.stream
          /\ here.position = Zero128
          /\ here.stream = before.stream
          /\ krull = Krull64_set_position(pre, Zero128)
    /\ (op.name = "set_stream" /\ krull.ty = "Krull64") =>
          /\ krull.stream = op.arg
          /\ krull.lcg0 = Not64(op.arg)
          /\ krull.lcg1 = Zero64
          /\ here.position = Zero128
          /\ here.stream = op.arg
          /\ krull = Krull64_set_position([pre EXCEPT !.stream = op.arg], Zero128)
    /\ krull.ty = "Krull64" =>
          Krull64_reset(krull) = Krull64_set_position(krull, Zero128)

\* A Krull64 away from position 0, with both words of its LCG off the
\* origin, was reset.
C21_Witness ==
    /\ op.name = "reset"
    /\ krull.ty = "Krull64"
    /\ before.position # Zero128
    /\ pre.lcg1 # Zero64
    /\ pre.lcg0 # Not64(pre.stream)
    /\ pre.stream # Zero64
    /\ here.position = Zero128
    /\ krull # pre

====
